---- MODULE Spec2Model ----
(***************************************************************************)
(* Model of the AI nudge server (src/mock-nudge-server.js): the profile    *)
(* interpreter interpretCCTScore, the two nudge generators with their      *)
(* rule-based fallback branches, and the three POST handlers.              *)
(*                                                                         *)
(* JSON values are records [t, n, s]: t is the JavaScript type, n the      *)
(* numeric value in hundredths (0.8 is 80, 70 is 7000), s the string.      *)
(***************************************************************************)
EXTENDS Integers, Sequences, FiniteSets, TLC

(***************************************************************************)
(* Bounds of the explored input space.                                     *)
(***************************************************************************)
MaxScore == 101
MaxQty == 1
MaxTokens == 1
MaxFields == 4
MaxInFlight == 2

(***************************************************************************)
(* JavaScript values                                                       *)
(***************************************************************************)
Undef == [t |-> "undefined", n |-> 0, s |-> ""]
Null == [t |-> "null", n |-> 0, s |-> ""]
Num(k) == [t |-> "number", n |-> k, s |-> ""]
NaN == [t |-> "number", n |-> 0, s |-> "NaN"]
Str(x) == [t |-> "string", n |-> 0, s |-> x]
Bool(b) == [t |-> "boolean", n |-> IF b THEN 1 ELSE 0, s |-> ""]
\* a plain object such as {} : converts to the string "[object Object]"
PlainObj == [t |-> "object", n |-> 0, s |-> ""]
\* an object whose own "toString" and "valueOf" keys are not functions, such
\* as {"toString": 1, "valueOf": 1}: every conversion to a primitive throws
NoPrimObj == [t |-> "object", n |-> 0, s |-> "noprimitive"]

\* typeof; a record without the tag t is a JSON object of the payload
TypeOf(v) == IF "t" \in DOMAIN v THEN v.t ELSE "object"

IsNaN(v) == TypeOf(v) = "number" /\ v.s = "NaN"

\* ToBoolean: what `x ? a : b`, `x || d`, `x && y`, `!!x` and filter(Boolean) test
Truthy(v) ==
  CASE TypeOf(v) = "undefined" -> FALSE
    [] TypeOf(v) = "null" -> FALSE
    [] TypeOf(v) = "number" -> ~IsNaN(v) /\ v.n # 0
    [] TypeOf(v) = "string" -> v.s # ""
    [] TypeOf(v) = "boolean" -> v.n = 1
    [] OTHER -> TRUE

\* x == null
LooseNull(v) == TypeOf(v) \in {"undefined", "null"}

\* a conversion to a primitive (template literal, arithmetic, comparison) throws
ThrowsOnPrimitive(v) == v = NoPrimObj

\* StringToNumber for the strings of the explored payloads; any other text is
\* not a numeric literal and gives NaN
StringToNumber(x) ==
  CASE x = "" -> Num(0)
    [] x = "0" -> Num(0)
    [] x = "1" -> Num(100)
    [] x = "0.9" -> Num(90)
    [] x = "0.5" -> Num(50)
    [] x = "100" -> Num(10000)
    [] OTHER -> NaN

\* ToNumber, for values that do not throw
ToNumber(v) ==
  CASE TypeOf(v) = "undefined" -> NaN
    [] TypeOf(v) = "null" -> Num(0)
    [] TypeOf(v) = "number" -> v
    [] TypeOf(v) = "string" -> StringToNumber(v.s)
    [] TypeOf(v) = "boolean" -> Num(100 * v.n)
    [] OTHER -> NaN

\* v >= k and v > k for a numeric literal k (hundredths); false on NaN
GreaterEq(v, k) == LET x == ToNumber(v) IN ~IsNaN(x) /\ x.n >= k
Greater(v, k) == LET x == ToNumber(v) IN ~IsNaN(x) /\ x.n > k
Less(v, k) == LET x == ToNumber(v) IN ~IsNaN(x) /\ x.n < k

\* a - b
Minus(a, b) ==
  LET x == ToNumber(a)
      y == ToNumber(b)
  IN IF IsNaN(x) \/ IsNaN(y) THEN NaN ELSE Num(x.n - y.n)

Digit(d) ==
  CASE d = 0 -> "0" [] d = 1 -> "1" [] d = 2 -> "2" [] d = 3 -> "3"
    [] d = 4 -> "4" [] d = 5 -> "5" [] d = 6 -> "6" [] d = 7 -> "7"
    [] d = 8 -> "8" [] OTHER -> "9"

RECURSIVE NatToString(_)
NatToString(k) ==
  IF k < 10 THEN Digit(k) ELSE NatToString(k \div 10) \o Digit(k % 10)

Abs(k) == IF k < 0 THEN 0 - k ELSE k

\* Number.prototype.toFixed(2)
ToFixed2(v) ==
  IF IsNaN(v) THEN "NaN"
  ELSE (IF v.n < 0 THEN "-" ELSE "")
       \o NatToString(Abs(v.n) \div 100) \o "."
       \o Digit((Abs(v.n) % 100) \div 10) \o Digit(Abs(v.n) % 10)

\* Number::toString for a value with at most two decimals
NumberToString(v) ==
  IF IsNaN(v) THEN "NaN"
  ELSE LET a == Abs(v.n)
           f == a % 100
       IN (IF v.n < 0 THEN "-" ELSE "")
          \o NatToString(a \div 100)
          \o (IF f = 0 THEN ""
              ELSE IF f % 10 = 0 THEN "." \o Digit(f \div 10)
              ELSE "." \o Digit(f \div 10) \o Digit(f % 10))

\* ToString, as a template literal applies it, for values that do not throw
JSToString(v) ==
  CASE TypeOf(v) = "undefined" -> "undefined"
    [] TypeOf(v) = "null" -> "null"
    [] TypeOf(v) = "number" -> NumberToString(v)
    [] TypeOf(v) = "string" -> v.s
    [] TypeOf(v) = "boolean" -> (IF v.n = 1 THEN "true" ELSE "false")
    [] OTHER -> "[object Object]"

(***************************************************************************)
(* Profile interpreter                                                     *)
(***************************************************************************)
CCTInfo(l, a) == [raised |-> FALSE, level |-> l, advice |-> a]
CCTRaise == [raised |-> TRUE, level |-> "", advice |-> ""]

\* the thresholds compared with > instead of >=
interpretCCTScoreStrict(cctScore) ==
  IF LooseNull(cctScore) THEN CCTInfo("unknown", "standard risk assessment")
  ELSE IF ThrowsOnPrimitive(cctScore) THEN CCTRaise
  ELSE IF Greater(cctScore, 80)
    THEN CCTInfo("high", "conservative approach recommended")
  ELSE IF Greater(cctScore, 50)
    THEN CCTInfo("medium", "balanced risk management")
  ELSE CCTInfo("low", "careful position sizing advised")

interpretCCTScore(cctScore) ==
  IF LooseNull(cctScore) THEN CCTInfo("unknown", "standard risk assessment")
  ELSE IF ThrowsOnPrimitive(cctScore) THEN CCTRaise
  ELSE IF GreaterEq(cctScore, 80)
    THEN CCTInfo("high", "conservative approach recommended")
  ELSE IF GreaterEq(cctScore, 50)
    THEN CCTInfo("medium", "balanced risk management")
  ELSE CCTInfo("low", "careful position sizing advised")

(***************************************************************************)
(* Request payloads.  A JSON object is a record; an absent member is a     *)
(* missing field of the record, read as undefined.                         *)
(***************************************************************************)
\* o?.f, and o.f where the code has already tested o
Opt(o, f) == IF f \in DOMAIN o THEN o[f] ELSE Undef

\* a || d
Or(v, d) == IF Truthy(v) THEN v ELSE d

\* the characters of the strings the explored payloads and completions carry;
\* any other string counts as one symbol that is not white space
Chars(x) ==
  CASE x = "None" -> <<"N", "o", "n", "e">>
    [] x = "Less than 1y" -> <<"L", "e", "s", "s", " ", "t", "h", "a", "n", " ", "1", "y">>
    [] x = "Less than" -> <<"L", "e", "s", "s", " ", "t", "h", "a", "n">>
    [] x = "5 years" -> <<"5", " ", "y", "e", "a", "r", "s">>
    [] x = "" -> <<>>
    [] x = " " -> <<" ">>
    [] x = "  " -> <<" ", " ">>
    [] x = "ok" -> <<"o", "k">>
    [] x = " ok " -> <<" ", "o", "k", " ">>
    [] x = "o k" -> <<"o", " ", "k">>
    [] OTHER -> <<x>>

\* String.prototype.includes
Includes(x, sub) ==
  LET a == Chars(x)
      b == Chars(sub)
  IN \E i \in 0..(Len(a) - Len(b)) : SubSeq(a, i + 1, i + Len(b)) = b

\* Array.prototype.filter(Boolean)
FilterBoolean(arr) == SelectSeq(arr, Truthy)

\* Array.prototype.join(' ') of an array of strings
RECURSIVE JoinSpace(_)
JoinSpace(arr) ==
  IF Len(arr) = 0 THEN ""
  ELSE IF Len(arr) = 1 THEN arr[1].s
  ELSE arr[1].s \o " " \o JoinSpace(Tail(arr))

\* !!(portfolio || scenario || trading_context)
\* a detection that also counts a profile
isEnhancedPayloadWithProfile(scenario) ==
  Truthy(Or(Or(Or(Opt(scenario, "portfolio"), Opt(scenario, "scenario")),
               Opt(scenario, "trading_context")),
            Opt(scenario, "profile")))

isEnhancedPayload(scenario) ==
  Truthy(Or(Or(Opt(scenario, "portfolio"), Opt(scenario, "scenario")),
            Opt(scenario, "trading_context")))

(***************************************************************************)
(* Fallback composer of generatePersonalizedNudge (its catch branch)       *)
(***************************************************************************)
FbSide(scenario) == Or(Opt(Opt(scenario, "exec"), "side"), Str("Buy"))
FbQty(scenario) == Or(Opt(Opt(scenario, "exec"), "qty"), Num(0))
\* a symbol without its default
FbSymNoDefault(scenario) == Opt(scenario, "sym")

FbSym(scenario) == Or(Opt(scenario, "sym"), Str("TICKER"))

TradingExperience(scenario) ==
  Opt(Opt(Opt(scenario, "profile"), "demographics"), "trading_experience")
PreMood(scenario) ==
  Opt(Opt(Opt(scenario, "profile"), "psychological_traits"), "pre_mood")
PreDecisionFatigue(scenario) ==
  Opt(Opt(Opt(scenario, "profile"), "psychological_traits"), "pre_decision_fatigue")

\* `You are placing ${qty} ${side} on ${sym}.`
TradeClause(scenario) ==
  Str("You are placing " \o JSToString(FbQty(scenario)) \o " "
      \o JSToString(FbSide(scenario)) \o " on " \o JSToString(FbSym(scenario)) \o ".")

\* a placeholder rendered where the clause should be left out
FairValueClausePlaceholder(scenario) ==
  LET fv == Opt(scenario, "fair_value")
      last == Opt(scenario, "last")
  IN IF Truthy(fv) /\ Truthy(last)
     THEN Str("Entry vs. fair value: " \o ToFixed2(Minus(last, fv)) \o ".")
     ELSE Str("Entry vs. fair value: n/a.")

\* fv && last ? `Entry vs. fair value: ${(last - fv).toFixed(2)}.` : null
FairValueClause(scenario) ==
  LET fv == Opt(scenario, "fair_value")
      last == Opt(scenario, "last")
  IN IF Truthy(fv) /\ Truthy(last)
     THEN Str("Entry vs. fair value: " \o ToFixed2(Minus(last, fv)) \o ".")
     ELSE Null

\* the text is a quoted string, not a template: the placeholder stays as written
SentimentClause(scenario) ==
  IF GreaterEq(Opt(scenario, "sentiment_pct"), 7000)
  THEN Str("High institutional activity (${scenario.sentiment_pct}%) creates strong market momentum.")
  ELSE Null

HotClause(scenario) ==
  IF Opt(scenario, "hot_condition") = Str("1")
  THEN Str("Market volatility requires careful execution timing.")
  ELSE Null

\* a risk clause that ignores the score
RiskClauseUnknownOnly(scenario) ==
  LET cctInfo == interpretCCTScore(Undef)
  IN Str("Risk assessment (" \o cctInfo.level \o " risk tolerance): "
         \o cctInfo.advice \o ".")

RiskClause(scenario) ==
  LET cctInfo == interpretCCTScore(Opt(Opt(scenario, "profile"), "cct_score"))
  IN Str("Risk assessment (" \o cctInfo.level \o " risk tolerance): "
         \o cctInfo.advice \o ".")

ExperienceClause(scenario) ==
  LET te == TradingExperience(scenario)
  IN IF Truthy(te)
     THEN Str("Your " \o JSToString(te) \o " experience suggests "
              \o (IF Includes(te.s, "None") \/ Includes(te.s, "Less than")
                  THEN "caution" ELSE "consideration")
              \o " of all market factors.")
     ELSE Null

MoodClause(scenario) ==
  IF Truthy(PreMood(scenario))
  THEN Str("Your current mood (" \o JSToString(PreMood(scenario))
           \o ") may influence market assessment.")
  ELSE Null

FatigueClause(scenario) ==
  IF Truthy(PreDecisionFatigue(scenario))
  THEN Str("Decision fatigue level (" \o JSToString(PreDecisionFatigue(scenario))
           \o ") may affect market analysis.")
  ELSE Null

PortfolioClause(scenario) ==
  LET pf == Opt(scenario, "portfolio")
  IN IF isEnhancedPayload(scenario) /\ Truthy(pf)
     THEN Str("Portfolio: $" \o JSToString(Opt(pf, "balance")) \o " balance, "
              \o JSToString(Opt(pf, "posQty")) \o " position, "
              \o (IF GreaterEq(Opt(pf, "unrealizedPL"), 0) THEN "+" ELSE "")
              \o "$" \o JSToString(Opt(pf, "unrealizedPL")) \o " unrealized P&L.")
     ELSE Null

DrawdownClause(scenario) ==
  LET pf == Opt(scenario, "portfolio")
  IN IF isEnhancedPayload(scenario) /\ Greater(Opt(pf, "maxDrawdownPct"), 200)
     THEN Str("You're currently " \o JSToString(Opt(pf, "currentDrawdownPct"))
              \o "% below peak. Consider risk management strategy.")
     ELSE Null

RiskPatternClause(scenario) ==
  LET diff == Opt(Opt(scenario, "profile"), "cct_hot_cold_diff")
  IN IF isEnhancedPayload(scenario) /\ Truthy(diff)
     THEN Str("Your risk pattern shows "
              \o (IF Greater(diff, 0) THEN "more caution under market pressure"
                  ELSE "consistent risk-taking across market conditions")
              \o ".")
     ELSE Null

\* the values the branch converts to a primitive: one that cannot be converted
\* throws a TypeError
PersonalizedFallbackConverts(scenario) ==
  LET fv == Opt(scenario, "fair_value")
      last == Opt(scenario, "last")
      pf == Opt(scenario, "portfolio")
      enh == isEnhancedPayload(scenario)
  IN {FbQty(scenario), FbSide(scenario), FbSym(scenario),
      Opt(scenario, "sentiment_pct")}
     \cup (IF Truthy(fv) /\ Truthy(last) THEN {fv, last} ELSE {})
     \cup (IF Truthy(PreMood(scenario)) THEN {PreMood(scenario)} ELSE {})
     \cup (IF Truthy(PreDecisionFatigue(scenario))
           THEN {PreDecisionFatigue(scenario)} ELSE {})
     \cup (IF enh /\ Truthy(pf)
           THEN {Opt(pf, "balance"), Opt(pf, "posQty"), Opt(pf, "unrealizedPL")}
           ELSE {})
     \cup (IF enh THEN {Opt(pf, "maxDrawdownPct")} ELSE {})
     \cup (IF enh /\ Greater(Opt(pf, "maxDrawdownPct"), 200)
           THEN {Opt(pf, "currentDrawdownPct")} ELSE {})
     \cup (IF enh /\ Truthy(Opt(Opt(scenario, "profile"), "cct_hot_cold_diff"))
           THEN {Opt(Opt(scenario, "profile"), "cct_hot_cold_diff")} ELSE {})

\* trading_experience.includes(...) is called on every truthy value; only a
\* string has the method among the values explored
ExperienceThrows(scenario) ==
  LET te == TradingExperience(scenario)
  IN Truthy(te) /\ TypeOf(te) # "string"

PersonalizedFallbackThrows(scenario) ==
  \/ interpretCCTScore(Opt(Opt(scenario, "profile"), "cct_score")).raised
  \/ \E v \in PersonalizedFallbackConverts(scenario) : ThrowsOnPrimitive(v)
  \/ ExperienceThrows(scenario)

\* the array before .filter(Boolean)
PersonalizedFallbackArray(scenario) ==
  << TradeClause(scenario), FairValueClause(scenario), RiskClause(scenario),
     SentimentClause(scenario), HotClause(scenario), ExperienceClause(scenario),
     MoodClause(scenario), FatigueClause(scenario), PortfolioClause(scenario),
     DrawdownClause(scenario), RiskPatternClause(scenario) >>

Thrown == [raised |-> TRUE, array |-> <<>>, text |-> ""]
Composed(arr) ==
  [raised |-> FALSE, array |-> arr, text |-> JoinSpace(FilterBoolean(arr))]

PersonalizedFallback(scenario) ==
  IF PersonalizedFallbackThrows(scenario) THEN Thrown
  ELSE Composed(PersonalizedFallbackArray(scenario))

(***************************************************************************)
(* Fallback composer of generateGenericNudge (its catch branch)            *)
(***************************************************************************)
GenericFallbackConverts(scenario) ==
  LET fv == Opt(scenario, "fair_value")
      last == Opt(scenario, "last")
  IN {FbQty(scenario), FbSide(scenario), FbSym(scenario),
      Opt(scenario, "sentiment_pct")}
     \cup (IF Truthy(fv) /\ Truthy(last) THEN {fv, last} ELSE {})

GenericFallbackThrows(scenario) ==
  \E v \in GenericFallbackConverts(scenario) : ThrowsOnPrimitive(v)

\* a generic array that also carries the personalized risk clause
GenericFallbackArrayWithRisk(scenario) ==
  << TradeClause(scenario), FairValueClause(scenario),
     SentimentClause(scenario), HotClause(scenario), RiskClause(scenario) >>

GenericFallbackArray(scenario) ==
  << TradeClause(scenario), FairValueClause(scenario),
     SentimentClause(scenario), HotClause(scenario) >>

GenericFallback(scenario) ==
  IF GenericFallbackThrows(scenario) THEN Thrown
  ELSE Composed(GenericFallbackArray(scenario))

(***************************************************************************)
(* Prompt composition (the try branches up to the external call).  The     *)
(* prompt is the sequence of its lines that depend on the request; the     *)
(* fixed instruction lines carry no request data and are left out.         *)
(***************************************************************************)
\* only the string form accepted
isHotConditionStringOnly(scenario) == Opt(scenario, "hot_condition") = Str("1")

\* hot_condition === '1' || hot_condition === true
isHotCondition(scenario) ==
  Opt(scenario, "hot_condition") = Str("1") \/ Opt(scenario, "hot_condition") = Bool(TRUE)

\* (ask && bid) ? (ask - bid).toFixed(2) : null
Spread(scenario) ==
  LET ask == Opt(scenario, "ask")
      bid == Opt(scenario, "bid")
  IN IF Truthy(ask) /\ Truthy(bid) THEN Str(ToFixed2(Minus(ask, bid))) ELSE Null

CtxSide(scenario) == Or(Opt(Opt(scenario, "exec"), "side"), Str("Buy"))
CtxQuantity(scenario) == Or(Opt(Opt(scenario, "exec"), "qty"), Num(0))
CtxOrderType(scenario) == Or(Opt(Opt(scenario, "exec"), "ordType"), Str("Market"))
CtxSymbol(scenario) == Or(Opt(scenario, "sym"), Str("TICKER"))

TradeLine(scenario) ==
  "- Trade: " \o JSToString(CtxSide(scenario)) \o " " \o JSToString(CtxQuantity(scenario))
  \o " shares of " \o JSToString(CtxSymbol(scenario))
  \o " (" \o JSToString(CtxOrderType(scenario)) \o " order)"

MarketLine(scenario) ==
  "- Market: Last=" \o JSToString(Opt(scenario, "last"))
  \o ", Bid=" \o JSToString(Opt(scenario, "bid"))
  \o ", Ask=" \o JSToString(Opt(scenario, "ask"))
  \o (IF Truthy(Spread(scenario)) THEN ", Spread=$" \o Spread(scenario).s ELSE "")

AnalysisLine(scenario) ==
  "- Analysis: Fair Value=" \o JSToString(Opt(scenario, "fair_value"))
  \o ", Analyst Target=" \o JSToString(Opt(scenario, "anchor_target"))
  \o ", Institutional Activity=" \o JSToString(Opt(scenario, "sentiment_pct")) \o "%"

VolatilityText(scenario) ==
  IF isHotCondition(scenario) THEN "High volatility conditions"
  ELSE "Standard market conditions"

\* the values the shared lines convert to a primitive
MarketConverts(scenario) ==
  {CtxSide(scenario), CtxQuantity(scenario), CtxSymbol(scenario), CtxOrderType(scenario),
   Opt(scenario, "last"), Opt(scenario, "bid"), Opt(scenario, "ask"),
   Opt(scenario, "fair_value"), Opt(scenario, "anchor_target"),
   Opt(scenario, "sentiment_pct")}

GenericPromptThrows(scenario) ==
  \E v \in MarketConverts(scenario) : ThrowsOnPrimitive(v)

GenericPrompt(scenario) ==
  << TradeLine(scenario), MarketLine(scenario), AnalysisLine(scenario),
     "- Market Volatility: " \o VolatilityText(scenario) >>

\* the participant and the enhanced context of generatePersonalizedNudge
Demo(scenario, f) == Opt(Opt(Opt(scenario, "profile"), "demographics"), f)
Exper(scenario, f) == Opt(Opt(Opt(scenario, "profile"), "experience"), f)
Psych(scenario, f) == Opt(Opt(Opt(scenario, "profile"), "psychological_traits"), f)
Prof(scenario, f) == Opt(Opt(scenario, "profile"), f)
Cct(scenario, f) == Opt(Opt(Opt(scenario, "profile"), "cct"), f)
Pf(scenario, f) == Opt(Opt(scenario, "portfolio"), f)
Scn(scenario, f) == Opt(Opt(scenario, "scenario"), f)
Tctx(scenario, f) == Opt(Opt(scenario, "trading_context"), f)

OrUnknown(v) == JSToString(Or(v, Str("Unknown")))

\* totalReturn * 100
Times100(v) == LET x == ToNumber(v) IN IF IsNaN(x) THEN NaN ELSE Num(x.n * 100)

RiskProfileLine(scenario) ==
  "- Risk Profile: "
  \o interpretCCTScore(Prof(scenario, "cct_score")).level
  \o " risk tolerance (CCT Score: " \o JSToString(Prof(scenario, "cct_score")) \o ")"
  \o (IF Truthy(Prof(scenario, "cct_hot_score"))
      THEN ", Hot/Cold Risk Pattern: " \o JSToString(Prof(scenario, "cct_hot_score"))
           \o "/" \o JSToString(Prof(scenario, "cct_cold_score"))
           \o " (diff: " \o JSToString(Prof(scenario, "cct_hot_cold_diff")) \o ")"
      ELSE "")
  \o (IF Truthy(Cct(scenario, "risk_level"))
      THEN ", Risk Profile: " \o JSToString(Cct(scenario, "risk_level"))
           \o " (" \o JSToString(Cct(scenario, "risk_type")) \o "), Consistency: "
           \o JSToString(Cct(scenario, "risk_consistency")) \o ", Preference: "
           \o JSToString(Cct(scenario, "risk_preference"))
      ELSE "")

InvestorLine(scenario) ==
  "- Investor Profile: " \o OrUnknown(Demo(scenario, "age")) \o " "
  \o OrUnknown(Demo(scenario, "gender")) \o ", "
  \o OrUnknown(Demo(scenario, "education")) \o " education, $"
  \o OrUnknown(Demo(scenario, "personal_income")) \o " income"

ExperienceLine(scenario) ==
  "- Experience: " \o OrUnknown(Exper(scenario, "trading_years"))
  \o " trading experience, " \o OrUnknown(Exper(scenario, "confidence"))
  \o "/10 confidence, " \o OrUnknown(Exper(scenario, "market_knowledge"))
  \o " market knowledge"

StateLine(scenario) ==
  "- Current State: " \o OrUnknown(Psych(scenario, "pre_mood")) \o " mood, "
  \o OrUnknown(Psych(scenario, "pre_decision_fatigue")) \o " decision fatigue, "
  \o OrUnknown(Psych(scenario, "regret_avoidance")) \o "/7 regret avoidance"

\* context.scenario is null unless the payload is enhanced
TimerSec(scenario) ==
  IF isEnhancedPayload(scenario) THEN Scn(scenario, "timer_sec") ELSE Undef

VolatilityLine(scenario) ==
  "- Market Volatility: " \o VolatilityText(scenario)
  \o (IF Truthy(TimerSec(scenario))
      THEN " (" \o JSToString(TimerSec(scenario)) \o "s execution window)" ELSE "")

PortfolioLines(scenario) ==
  IF isEnhancedPayload(scenario)
  THEN << "- Portfolio: Balance=$" \o JSToString(Pf(scenario, "balance"))
            \o ", Position=" \o JSToString(Pf(scenario, "posQty"))
            \o "@$" \o JSToString(Pf(scenario, "posPx"))
            \o ", Unrealized P&L=$" \o JSToString(Pf(scenario, "unrealizedPL"))
            \o ", Realized P&L=$" \o JSToString(Pf(scenario, "realizedPL")),
          "- Performance: Total Return="
            \o ToFixed2(Times100(Pf(scenario, "totalReturn")))
            \o "%, Max Drawdown=" \o JSToString(Pf(scenario, "maxDrawdownPct"))
            \o "%, Current Drawdown=" \o JSToString(Pf(scenario, "currentDrawdownPct"))
            \o "%",
          "- Trading History: " \o JSToString(Pf(scenario, "tradeCount"))
            \o " trades completed, Previous P&L=$"
            \o JSToString(Tctx(scenario, "previous_realized_pl")),
          "- Market News: " \o JSToString(Scn(scenario, "name"))
            \o " (" \o JSToString(Scn(scenario, "session_tag")) \o "), Headline: "
            \o JSToString(Scn(scenario, "news_head")),
          "- Market Focus: " \o JSToString(Scn(scenario, "bias_focus")) >>
  ELSE << >>

StrategyLines(scenario) ==
  LET diff == Prof(scenario, "cct_hot_cold_diff")
      cons == Cct(scenario, "risk_consistency")
  IN << "- **CCT Risk Profile**: Use "
          \o JSToString(Or(Cct(scenario, "risk_level"), Str("standard")))
          \o " risk level ("
          \o JSToString(Or(Cct(scenario, "risk_type"), Str("balanced")))
          \o ") to tailor risk awareness",
        "- **Hot/Cold Pattern**: "
          \o (IF Greater(diff, 0) THEN "Participant shows more caution under pressure"
              ELSE IF Less(diff, 0)
                THEN "Participant shows more risk-taking under pressure"
              ELSE "Participant shows consistent risk-taking across conditions")
          \o " - use this pattern to inform bias awareness",
        "- **Risk Consistency**: " \o JSToString(Or(cons, Str("unknown")))
          \o " consistency suggests "
          \o (IF cons = Str("consistent") THEN "predictable risk behavior"
              ELSE "variable risk behavior")
          \o " - tailor advice accordingly",
        "- **Gain/Loss Sensitivity**: "
          \o JSToString(Or(Cct(scenario, "gain_sensitivity"), Str("unknown")))
          \o " gain sensitivity and "
          \o JSToString(Or(Cct(scenario, "loss_aversion"), Str("unknown")))
          \o " loss aversion - use to frame risk awareness",
        "- **Trading Experience**: " \o OrUnknown(Exper(scenario, "trading_years"))
          \o " experience level - adjust complexity of bias awareness",
        "- **Current State**: " \o OrUnknown(Psych(scenario, "pre_mood"))
          \o " mood and " \o OrUnknown(Psych(scenario, "pre_decision_fatigue"))
          \o " fatigue - consider emotional state in bias awareness" >>
     \o (IF isEnhancedPayload(scenario)
         THEN << "- **Portfolio Context**: "
                   \o (IF Greater(Pf(scenario, "currentDrawdownPct"), 500)
                       THEN "Participant is experiencing significant drawdown"
                       ELSE IF Greater(Pf(scenario, "currentDrawdownPct"), 200)
                         THEN "Participant is experiencing moderate drawdown"
                       ELSE "Participant is near peak performance")
                   \o " - use this context for risk awareness",
                 "- **Performance Pattern**: "
                   \o (IF Greater(Pf(scenario, "totalReturn"), 0)
                       THEN "Positive performance" ELSE "Negative performance")
                   \o " with " \o JSToString(Pf(scenario, "tradeCount"))
                   \o " trades - consider overconfidence or loss aversion" >>
         ELSE << >>)

PersonalizedConverts(scenario) ==
  MarketConverts(scenario)
  \cup {Prof(scenario, "cct_score"), Prof(scenario, "cct_hot_cold_diff")}
  \cup {Or(Demo(scenario, f), Str("Unknown")) :
          f \in {"age", "gender", "education", "personal_income"}}
  \cup {Or(Exper(scenario, f), Str("Unknown")) :
          f \in {"trading_years", "confidence", "market_knowledge"}}
  \cup {Or(Psych(scenario, f), Str("Unknown")) :
          f \in {"pre_mood", "pre_decision_fatigue", "regret_avoidance"}}
  \cup {Or(Cct(scenario, f), Str("unknown")) :
          f \in {"risk_level", "risk_type", "risk_consistency",
                 "gain_sensitivity", "loss_aversion"}}
  \cup (IF Truthy(Prof(scenario, "cct_hot_score"))
        THEN {Prof(scenario, "cct_hot_score"), Prof(scenario, "cct_cold_score")}
        ELSE {})
  \cup (IF Truthy(Cct(scenario, "risk_level"))
        THEN {Cct(scenario, "risk_preference")} ELSE {})
  \cup (IF Truthy(TimerSec(scenario)) THEN {TimerSec(scenario)} ELSE {})
  \cup (IF isEnhancedPayload(scenario)
        THEN {Pf(scenario, f) :
                f \in {"balance", "posQty", "posPx", "unrealizedPL", "realizedPL",
                       "totalReturn", "maxDrawdownPct", "currentDrawdownPct",
                       "tradeCount"}}
             \cup {Tctx(scenario, "previous_realized_pl")}
             \cup {Scn(scenario, f) :
                     f \in {"name", "session_tag", "news_head", "bias_focus"}}
        ELSE {})

PersonalizedPromptThrows(scenario) ==
  \/ interpretCCTScore(Prof(scenario, "cct_score")).raised
  \/ \E v \in PersonalizedConverts(scenario) : ThrowsOnPrimitive(v)

PersonalizedPrompt(scenario) ==
  << TradeLine(scenario), MarketLine(scenario), AnalysisLine(scenario),
     RiskProfileLine(scenario), InvestorLine(scenario), ExperienceLine(scenario),
     StateLine(scenario), VolatilityLine(scenario) >>
  \o PortfolioLines(scenario) \o StrategyLines(scenario)

(***************************************************************************)
(* The external call's completion and the success branches                 *)
(***************************************************************************)
\* an array is an object with its elements in items
Array(items) == [items |-> items]
First(arr) ==
  IF "items" \in DOMAIN arr /\ Len(arr.items) > 0 THEN arr.items[1] ELSE Undef

IsSpace(c) == c = " "

RECURSIVE TrimLeft(_)
TrimLeft(cs) ==
  IF Len(cs) > 0 /\ IsSpace(Head(cs)) THEN TrimLeft(Tail(cs)) ELSE cs

RECURSIVE TrimRight(_)
TrimRight(cs) ==
  IF Len(cs) > 0 /\ IsSpace(cs[Len(cs)])
  THEN TrimRight(SubSeq(cs, 1, Len(cs) - 1)) ELSE cs

RECURSIVE FromChars(_)
FromChars(cs) == IF Len(cs) = 0 THEN "" ELSE Head(cs) \o FromChars(Tail(cs))

\* String.prototype.trim
Trim(x) == FromChars(TrimRight(TrimLeft(Chars(x))))

\* completion.choices[0]?.message?.content
Content(completion) == Opt(Opt(First(Opt(completion, "choices")), "message"), "content")

\* an empty completion treated as a failure as well
CompletionThrowsOnEmpty(completion) ==
  \/ LooseNull(Opt(completion, "choices"))
  \/ LooseNull(Content(completion))
  \/ TypeOf(Content(completion)) # "string"
  \/ Trim(Content(completion).s) = ""

\* completion.choices[0] on a completion without choices, and .trim() on a
\* content that is not a string, throw a TypeError
CompletionThrows(completion) ==
  \/ LooseNull(Opt(completion, "choices"))
  \/ /\ ~LooseNull(Content(completion))
     /\ TypeOf(Content(completion)) # "string"

DefaultNudge == "Consider all factors carefully before making your trading decision."

\* the trimmed content without the `|| '...'` default
NudgeTextNoDefault(completion) ==
  LET c == Content(completion)
  IN IF LooseNull(c) THEN "" ELSE Trim(c.s)

\* completion.choices[0]?.message?.content?.trim() || '...'
NudgeText(completion) ==
  LET c == Content(completion)
  IN IF LooseNull(c) THEN DefaultNudge
     ELSE IF Trim(c.s) # "" THEN Trim(c.s) ELSE DefaultNudge

\* the usage without the `|| 0` default
TokensUsedNoDefault(completion) == Opt(Opt(completion, "usage"), "total_tokens")

\* completion.usage?.total_tokens || 0
TokensUsed(completion) == Or(Opt(Opt(completion, "usage"), "total_tokens"), Num(0))

Html(text) == "<div><b>AI Trade Feedback:</b> " \o text \o "</div>"

Returned(v) == [raised |-> FALSE, value |-> v]
Escaped(msg) == [raised |-> TRUE, value |-> [message |-> Str(msg)]]

PersonalizedSuccess(scenario, completion) ==
  Returned([model |-> Str("gpt-4o-mini"),
            suggestion_html |-> Str(Html(NudgeText(completion))),
            suggestion_text |-> Str(NudgeText(completion)),
            meta |-> [cct_score |-> Prof(scenario, "cct_score"),
                      cct_level |-> Str(interpretCCTScore(Prof(scenario, "cct_score")).level),
                      sentiment_pct |-> Opt(scenario, "sentiment_pct"),
                      is_hot |-> Bool(isHotCondition(scenario)),
                      tokens_used |-> TokensUsed(completion)]])

PersonalizedCatch(scenario, message) ==
  LET fb == PersonalizedFallback(scenario)
  IN IF fb.raised THEN Escaped("TypeError")
     ELSE Returned([model |-> Str("fallback-rule-based"),
                    suggestion_html |-> Str(Html(fb.text)),
                    suggestion_text |-> Str(fb.text),
                    meta |-> [error |-> Str(message),
                              fallback |-> Bool(TRUE),
                              enhanced_payload |-> Bool(isEnhancedPayload(scenario))]])

GenericSuccess(scenario, completion) ==
  Returned([model |-> Str("gpt-4o-mini"),
            suggestion_html |-> Str(Html(NudgeText(completion))),
            suggestion_text |-> Str(NudgeText(completion)),
            meta |-> [sentiment_pct |-> Opt(scenario, "sentiment_pct"),
                      is_hot |-> Bool(isHotCondition(scenario)),
                      tokens_used |-> TokensUsed(completion),
                      nudge_type |-> Str("generic")]])

GenericCatch(scenario, message) ==
  LET fb == GenericFallback(scenario)
  IN IF fb.raised THEN Escaped("TypeError")
     ELSE Returned([model |-> Str("fallback-rule-based"),
                    suggestion_html |-> Str(Html(fb.text)),
                    suggestion_text |-> Str(fb.text),
                    meta |-> [error |-> Str(message),
                              fallback |-> Bool(TRUE),
                              nudge_type |-> Str("generic")]])

\* what follows the await once the provider has answered
PersonalizedAfterCall(scenario, completion) ==
  IF CompletionThrows(completion) THEN PersonalizedCatch(scenario, "TypeError")
  ELSE PersonalizedSuccess(scenario, completion)

GenericAfterCall(scenario, completion) ==
  IF CompletionThrows(completion) THEN GenericCatch(scenario, "TypeError")
  ELSE GenericSuccess(scenario, completion)

(***************************************************************************)
(* The three POST handlers                                                 *)
(***************************************************************************)
Routes == {"/generic-nudge", "/enhanced-nudge", "/nudge"}

\* req.body || {}
EmptyObject == [f \in {} |-> Undef]
BodyOf(b) == IF Truthy(b) THEN b ELSE EmptyObject

\* res.json: JSON.stringify leaves out the members whose value is undefined
Stringify(o) == [f \in {g \in DOMAIN o : o[g] # Undef} |-> o[f]]
ToJSON(o) ==
  [f \in DOMAIN o |-> IF f = "meta" THEN Stringify(o[f]) ELSE o[f]]

PromptThrows(route, scenario) ==
  IF route = "/generic-nudge" THEN GenericPromptThrows(scenario)
  ELSE PersonalizedPromptThrows(scenario)

PromptOf(route, scenario) ==
  IF route = "/generic-nudge" THEN GenericPrompt(scenario)
  ELSE PersonalizedPrompt(scenario)

\* a legacy route served by the generic generator's catch branch
CatchOfLegacyGeneric(route, scenario, message) ==
  IF route \in {"/generic-nudge", "/nudge"} THEN GenericCatch(scenario, message)
  ELSE PersonalizedCatch(scenario, message)

CatchOf(route, scenario, message) ==
  IF route = "/generic-nudge" THEN GenericCatch(scenario, message)
  ELSE PersonalizedCatch(scenario, message)

AfterCallOf(route, scenario, completion) ==
  IF route = "/generic-nudge" THEN GenericAfterCall(scenario, completion)
  ELSE PersonalizedAfterCall(scenario, completion)

\* one error shape for the three routes
ErrorBodyPlain(route, error) == [error |-> Str("Nudge generation failed")]

\* the handler's catch: res.status(500).json(...)
ErrorBody(route, error) ==
  IF route = "/generic-nudge"
    THEN [error |-> Str("Generic nudge generation failed")]
  ELSE IF route = "/enhanced-nudge"
    THEN [error |-> Str("Enhanced nudge generation failed")]
  ELSE [model |-> Str("error"),
        suggestion_html |-> Str("<div>Unable to generate nudge at this time.</div>"),
        suggestion_text |-> Str("Unable to generate nudge at this time."),
        meta |-> [error |-> error.message]]

(***************************************************************************)
(* Explored inputs                                                         *)
(***************************************************************************)
\* a JSON object from name/value pairs; undefined members are left out
Member(name, v) == IF v = Undef THEN EmptyObject ELSE name :> v
ObjectOrUndef(o) == IF DOMAIN o = {} THEN Undef ELSE o

FieldNames ==
  {"qty", "side", "sym", "last", "fair_value", "sentiment_pct", "hot_condition",
   "cct_score", "cct_hot_cold_diff", "trading_experience", "pre_mood",
   "pre_decision_fatigue", "portfolio", "maxDrawdownPct", "scenario",
   "trading_context", "bid"}

\* the request body whose members are given by fl, a value (or Undef) per name
Build(fl) ==
  LET exec == ObjectOrUndef(Member("side", fl.side) @@ Member("qty", fl.qty))
      demographics == ObjectOrUndef(Member("trading_experience", fl.trading_experience))
      traits == ObjectOrUndef(Member("pre_mood", fl.pre_mood)
                              @@ Member("pre_decision_fatigue", fl.pre_decision_fatigue))
      profile == ObjectOrUndef(Member("cct_score", fl.cct_score)
                               @@ Member("cct_hot_cold_diff", fl.cct_hot_cold_diff)
                               @@ Member("demographics", demographics)
                               @@ Member("psychological_traits", traits))
      portfolio == IF fl.portfolio = Undef THEN Undef
                   ELSE Member("maxDrawdownPct", fl.maxDrawdownPct) @@ fl.portfolio
  IN Member("exec", exec) @@ Member("sym", fl.sym) @@ Member("last", fl.last)
     @@ Member("bid", fl.bid)
     @@ Member("fair_value", fl.fair_value)
     @@ Member("sentiment_pct", fl.sentiment_pct)
     @@ Member("hot_condition", fl.hot_condition)
     @@ Member("profile", profile) @@ Member("portfolio", portfolio)
     @@ Member("scenario", fl.scenario)
     @@ Member("trading_context", fl.trading_context)

NoFields == [f \in FieldNames |-> Undef]

SamplePortfolio ==
  [balance |-> Num(1000000), posQty |-> Num(10000), unrealizedPL |-> Num(-2550),
   currentDrawdownPct |-> Num(150)]
SampleScenario == [name |-> Str("Earnings"), timer_sec |-> Num(3000)]
SampleTradingContext == [previous_trades_count |-> Num(300)]

HotValues ==
  {Undef, Str("1"), Bool(TRUE), Str("0"), Num(0), Num(100), Str("true")}

\* the bodies the handlers are explored with
HandlerFields ==
  { [NoFields EXCEPT !.qty = q, !.sym = sy, !.hot_condition = h,
                     !.trading_experience = te, !.cct_score = cs,
                     !.portfolio = pf, !.fair_value = lf[1], !.last = lf[2],
                     !.sentiment_pct = lf[3]] :
      q \in {Undef} \cup {Num(100 * k) : k \in 0..MaxQty},
      sy \in {Undef, Str("ABC"), NoPrimObj},
      h \in HotValues,
      te \in {Undef, Str("Less than 1y"), Str("5 years"), Num(500)},
      cs \in {Undef, Num(90)},
      pf \in {Undef, SamplePortfolio},
      lf \in {<<Undef, Undef, Undef>>, <<Num(10100), Num(10000), Num(8000)>>} }

Bodies == {Undef} \cup {Build(fl) : fl \in HandlerFields}

Choice(content) == Array(<< [message |-> [content |-> content]] >>)

\* what the provider may answer: no choices member, an empty choices array,
\* a first choice without content or with an empty, blank or padded text
Completions ==
  { EmptyObject, [choices |-> Array(<< >>)] }
  \cup { [choices |-> Choice(c)] :
           c \in {Null, Str(""), Str("  "), Str(" ok "), Str("o k")} }
  \cup { [choices |-> Choice(Str("ok")), usage |-> [total_tokens |-> Num(100 * k)]] :
           k \in 0..MaxTokens }

(***************************************************************************)
(* State                                                                   *)
(***************************************************************************)
VARIABLES
  req,          \* the request a handler is serving
  cctScore,     \* argument of interpretCCTScore
  cctInfo,      \* its result
  fields,       \* members of the payload given to the fallback composers
  added,        \* the member added last
  prevAdvice,   \* the composers' results before that member was added
  advice,       \* the composers' results for the payload
  env,          \* process.env as read at process start
  health,       \* the response to the last GET /health
  inflight      \* the requests being served concurrently, by slot

vars ==
  <<req, cctScore, cctInfo, fields, added, prevAdvice, advice, env, health,
    inflight>>

Idle ==
  [pc |-> "idle", route |-> "", body |-> Undef, prompt |-> << >>, calls |-> 0,
   outcome |-> "none", completion |-> EmptyObject, result |-> Returned(EmptyObject), responses |-> << >>,
   escaped |-> FALSE]

NotInterpreted == [raised |-> FALSE, level |-> "", advice |-> ""]

Advice(fl) ==
  [generic |-> GenericFallback(Build(fl)),
   personalized |-> PersonalizedFallback(Build(fl))]

ReqIdle == req = Idle

\* the process was started with a credential and GET /health was not asked yet
Environment(key) == [OPENAI_API_KEY |-> key]
Configured == env = Environment(Str("sk-test")) /\ health = Undef

Slots == 1..MaxInFlight
NoneInFlight == inflight = [s \in Slots |-> Idle]
InterpreterIdle == cctScore = Undef /\ cctInfo = NotInterpreted
ComposerIdle ==
  /\ fields = NoFields /\ added = ""
  /\ prevAdvice = Advice(NoFields) /\ advice = Advice(NoFields)

(***************************************************************************)
(* Handlers: one request at a time, from its arrival to its response       *)
(***************************************************************************)
\* the handler runs the generator up to the await of the external call; an
\* exception before the call goes to the generator's catch branch
Receive(route, b) ==
  /\ req.pc = "idle"
  /\ LET scenario == BodyOf(b)
     IN req' = IF PromptThrows(route, scenario)
               THEN [Idle EXCEPT !.pc = "settled", !.route = route,
                                 !.body = scenario,
                                 !.result = CatchOf(route, scenario, "TypeError")]
               ELSE [Idle EXCEPT !.pc = "awaiting", !.route = route,
                                 !.body = scenario,
                                 !.prompt = PromptOf(route, scenario),
                                 !.calls = 1]
  /\ UNCHANGED <<cctScore, cctInfo, fields, added, prevAdvice, advice, env,
                 health, inflight>>

\* openai.chat.completions.create resolves; the provider answers only a call
\* that carries a credential
CallResolves(completion) ==
  /\ req.pc = "awaiting"
  /\ Truthy(env.OPENAI_API_KEY)
  /\ req' = [req EXCEPT !.pc = "settled", !.outcome = "resolved",
                        !.completion = completion,
                        !.result = AfterCallOf(req.route, req.body, completion)]
  /\ UNCHANGED <<cctScore, cctInfo, fields, added, prevAdvice, advice, env,
                 health, inflight>>

\* a rejected call that is issued once more before the catch branch runs
CallRejectsRetries ==
  /\ req.pc = "awaiting"
  /\ req' = IF req.calls < 2
            THEN [req EXCEPT !.calls = req.calls + 1]
            ELSE [req EXCEPT !.pc = "settled", !.outcome = "rejected",
                             !.result = CatchOf(req.route, req.body,
                                                "Connection error.")]
  /\ UNCHANGED <<cctScore, cctInfo, fields, added, prevAdvice, advice, env,
                 health, inflight>>

\* openai.chat.completions.create rejects
CallRejects ==
  /\ req.pc = "awaiting"
  /\ req' = [req EXCEPT !.pc = "settled", !.outcome = "rejected",
                        !.result = CatchOf(req.route, req.body, "Connection error.")]
  /\ UNCHANGED <<cctScore, cctInfo, fields, added, prevAdvice, advice, env,
                 health, inflight>>

\* a catch that rethrows instead of answering
HandlerCatchRethrows(route, error) == [responses |-> << >>, escaped |-> TRUE]

\* the handler resumes after `await generate...(body)`
HandlerCatch(route, error) ==
  [responses |-> << [status |-> 500, body |-> ErrorBody(route, error)] >>,
   escaped |-> FALSE]

HandlerTry(route, result) ==
  IF result.raised THEN HandlerCatch(route, result.value)
  ELSE [responses |-> << [status |-> 200, body |-> ToJSON(result.value)] >>,
        escaped |-> FALSE]

Respond ==
  /\ req.pc = "settled"
  /\ LET h == HandlerTry(req.route, req.result)
     IN req' = [req EXCEPT !.pc = "responded",
                           !.responses = req.responses \o h.responses,
                           !.escaped = h.escaped]
  /\ UNCHANGED <<cctScore, cctInfo, fields, added, prevAdvice, advice, env,
                 health, inflight>>

\* the request's values are dropped; the next request starts afresh
Finish ==
  /\ req.pc = "responded"
  /\ req' = Idle
  /\ UNCHANGED <<cctScore, cctInfo, fields, added, prevAdvice, advice, env,
                 health, inflight>>

Init ==
  /\ ReqIdle /\ InterpreterIdle /\ ComposerIdle
  /\ Configured /\ NoneInFlight

Next ==
  \/ \E route \in Routes, b \in Bodies : Receive(route, b)
  \/ \E completion \in Completions : CallResolves(completion)
  \/ CallRejects
  \/ Respond
  \/ Finish

Spec == Init /\ [][Next]_vars

(***************************************************************************)
(* interpretCCTScore applied to one input after another                    *)
(***************************************************************************)
ScoreInputs ==
  {Undef, Null} \cup {Num(k) : k \in (0 - MaxScore)..MaxScore}
  \cup {Str("abc"), Str("0.9"), Str(""), Bool(TRUE), Bool(FALSE), PlainObj, NoPrimObj}

Interpret ==
  /\ cctInfo = NotInterpreted
  /\ cctInfo' = interpretCCTScore(cctScore)
  /\ UNCHANGED <<req, cctScore, fields, added, prevAdvice, advice, env, health,
                 inflight>>

NextScore(v) ==
  /\ cctInfo # NotInterpreted
  /\ cctScore' = v
  /\ cctInfo' = NotInterpreted
  /\ UNCHANGED <<req, fields, added, prevAdvice, advice, env, health, inflight>>

InitInterpret ==
  /\ cctScore \in ScoreInputs /\ cctInfo = NotInterpreted
  /\ ReqIdle /\ ComposerIdle
  /\ Configured /\ NoneInFlight

NextInterpret == Interpret \/ \E v \in ScoreInputs : NextScore(v)

SpecInterpret == InitInterpret /\ [][NextInterpret]_vars

(***************************************************************************)
(* The fallback composers applied to a payload that grows member by member *)
(***************************************************************************)
FieldValues(f) ==
  CASE f = "fair_value" -> {Num(0), Num(10100)}
    [] f = "last" -> {Num(0), Num(10000)}
    [] f = "sentiment_pct" -> {Num(5000), Num(7500)}
    [] f = "hot_condition" -> {Str("1"), Bool(TRUE), Str("0")}
    [] f = "trading_experience" -> {Str("Less than 1y"), Str("5 years"), Num(500)}
    [] f = "pre_mood" -> {Str("calm")}
    [] f = "pre_decision_fatigue" -> {Str("high")}
    [] f = "portfolio" -> {SamplePortfolio}
    [] f = "maxDrawdownPct" -> {Num(200), Num(201)}
    [] f = "cct_hot_cold_diff" -> {Num(10), Num(-10)}
    [] f = "scenario" -> {SampleScenario}
    [] f = "trading_context" -> {SampleTradingContext}
    [] f = "cct_score" -> {Num(90)}
    [] OTHER -> {}

Present(fl) == {f \in FieldNames : fl[f] # Undef}

\* a member is added to the payload and both composers are run on the result;
\* maxDrawdownPct is a member of portfolio and needs it
AddField(f, v) ==
  /\ fields[f] = Undef
  /\ Cardinality(Present(fields)) < MaxFields
  /\ f = "maxDrawdownPct" => fields.portfolio # Undef
  /\ fields' = [fields EXCEPT ![f] = v]
  /\ added' = f
  /\ prevAdvice' = advice
  /\ advice' = Advice(fields')
  /\ UNCHANGED <<req, cctScore, cctInfo, env, health, inflight>>

InitCompose ==
  /\ ReqIdle /\ InterpreterIdle /\ ComposerIdle
  /\ Configured /\ NoneInFlight

NextCompose == \E f \in FieldNames : \E v \in FieldValues(f) : AddField(f, v)

SpecCompose == InitCompose /\ [][NextCompose]_vars

(***************************************************************************)
(* Properties                                                              *)
(***************************************************************************)
Responded == req.pc = "responded"
Response == req.responses[1]
TextOf(body) == Opt(body, "suggestion_text")
NonEmptyString(v) == TypeOf(v) = "string" /\ v.s # ""
IsFallbackBody(body) ==
  /\ Opt(body, "model") = Str("fallback-rule-based")
  /\ Opt(Opt(body, "meta"), "fallback") = Bool(TRUE)

\* C1: on every route, when the external call fails the response is HTTP 200
\* with model "fallback-rule-based" and meta.fallback true
C1_GatewayFailureAnswered200 ==
  (Responded /\ req.outcome = "rejected")
    => \A i \in 1..Len(req.responses) :
         /\ req.responses[i].status = 200
         /\ IsFallbackBody(req.responses[i].body)

\* C2: every NudgeResult a route returns (a 200 body, and the structured 500
\* body of /nudge) has a non-empty suggestion_text
C2_SuggestionTextNonEmpty ==
  \A i \in 1..Len(req.responses) :
    (req.responses[i].status = 200 \/ req.route = "/nudge")
      => NonEmptyString(TextOf(req.responses[i].body))

C2_Witness ==
  /\ Responded /\ req.outcome = "resolved"
  /\ Content(req.completion) = Str("  ")
  /\ Response.status = 200
  /\ TextOf(Response.body) = Str(DefaultNudge)

\* C3: a handler sends exactly one response per request, with status 200 or
\* 500, and no exception leaves the handler
C3_ExactlyOneResponse ==
  /\ ~req.escaped
  /\ Responded => /\ Len(req.responses) = 1
                  /\ Response.status \in {200, 500}
  /\ ~Responded => Len(req.responses) = 0

C3_Witness ==
  /\ Responded /\ req.outcome = "rejected" /\ req.result.raised
  /\ Len(req.responses) = 1 /\ Response.status = 500

\* C4 as stated: on each route the status-500 body carries both an inert
\* suggestion text and an error summary
C4_Original ==
  \A i \in 1..Len(req.responses) :
    req.responses[i].status = 500
      => /\ NonEmptyString(TextOf(req.responses[i].body))
         /\ \/ NonEmptyString(Opt(req.responses[i].body, "error"))
            \/ NonEmptyString(Opt(Opt(req.responses[i].body, "meta"), "error"))

\* C4 amended: the status-500 body of /nudge carries an inert suggestion text
\* and the error message; the status-500 bodies of /generic-nudge and
\* /enhanced-nudge carry a fixed error summary and nothing else
C4_ErrorBodies ==
  \A i \in 1..Len(req.responses) :
    LET body == req.responses[i].body
    IN req.responses[i].status = 500
         => IF req.route = "/nudge"
            THEN /\ TextOf(body) = Str("Unable to generate nudge at this time.")
                 /\ Opt(body, "model") = Str("error")
                 /\ NonEmptyString(Opt(Opt(body, "meta"), "error"))
            ELSE /\ DOMAIN body = {"error"}
                 /\ NonEmptyString(body.error)

C4_Witness ==
  /\ Responded /\ req.route = "/nudge" /\ req.result.raised
  /\ Response.status = 500

\* C5: the fallback composers return a non-empty text for every payload and
\* never raise
C5_FallbackTotal ==
  /\ ~advice.personalized.raised /\ advice.personalized.text # ""
  /\ ~advice.generic.raised /\ advice.generic.text # ""

\* the provider answered with a choices array whose first choice is missing,
\* has no content, or has a content that is empty once trimmed
EmptyCompletion ==
  /\ req.outcome = "resolved"
  /\ ~LooseNull(Opt(req.completion, "choices"))
  /\ \/ LooseNull(Content(req.completion))
     \/ /\ TypeOf(Content(req.completion)) = "string"
        /\ Trim(Content(req.completion).s) = ""

\* C6 as stated: an empty completion is answered by the fallback composer
C6_Original ==
  (Responded /\ EmptyCompletion) => IsFallbackBody(Response.body)

\* C6 amended: an empty completion is answered as a success: status 200,
\* model "gpt-4o-mini", the fixed sentence as text and no fallback flag
C6_EmptyCompletionDefaultText ==
  (Responded /\ EmptyCompletion)
    => /\ Response.status = 200
       /\ Opt(Response.body, "model") = Str("gpt-4o-mini")
       /\ TextOf(Response.body) = Str(DefaultNudge)
       /\ Opt(Opt(Response.body, "meta"), "fallback") = Undef

C6_Witness ==
  /\ Responded /\ EmptyCompletion
  /\ Content(req.completion) = Str("")
  /\ Opt(Response.body, "model") = Str("gpt-4o-mini")

Interpreted == cctInfo # NotInterpreted
IsNumber(v) == TypeOf(v) = "number" /\ ~IsNaN(v)

\* C7: a numeric score s is "high" when s >= 0.8, "medium" when
\* 0.5 <= s < 0.8 and "low" when s < 0.5, each with its advice
C7_ThresholdsExact ==
  (Interpreted /\ IsNumber(cctScore))
    => /\ ~cctInfo.raised
       /\ cctScore.n >= 80
            => /\ cctInfo.level = "high"
               /\ cctInfo.advice = "conservative approach recommended"
       /\ (cctScore.n >= 50 /\ cctScore.n < 80)
            => /\ cctInfo.level = "medium"
               /\ cctInfo.advice = "balanced risk management"
       /\ cctScore.n < 50
            => /\ cctInfo.level = "low"
               /\ cctInfo.advice = "careful position sizing advised"

C7_Witness == cctScore = Num(80) /\ cctInfo.level = "high"

\* C8: an absent input and an input that is not a number give "unknown" with
\* the advice "standard risk assessment", and the function never fails
C8_AbsentOrNonNumericUnknown ==
  (Interpreted /\ ~IsNumber(cctScore))
    => /\ ~cctInfo.raised
       /\ cctInfo.level = "unknown"
       /\ cctInfo.advice = "standard risk assessment"

PersonalizedClauseNames ==
  << "trade", "fair_value", "risk", "sentiment", "hot", "experience", "mood",
     "fatigue", "portfolio", "drawdown", "risk_pattern" >>
GenericClauseNames == << "trade", "fair_value", "sentiment", "hot" >>

\* the clause a guarding member is associated with
OwnClause(f) ==
  CASE f = "fair_value" -> "fair_value"
    [] f = "last" -> "fair_value"
    [] f = "sentiment_pct" -> "sentiment"
    [] f = "hot_condition" -> "hot"
    [] f = "trading_experience" -> "experience"
    [] f = "pre_mood" -> "mood"
    [] f = "pre_decision_fatigue" -> "fatigue"
    [] f = "portfolio" -> "portfolio"
    [] f = "maxDrawdownPct" -> "drawdown"
    [] f = "cct_hot_cold_diff" -> "risk_pattern"
    [] OTHER -> ""

GuardingFields ==
  {"fair_value", "last", "sentiment_pct", "hot_condition", "trading_experience",
   "pre_mood", "pre_decision_fatigue", "portfolio", "maxDrawdownPct",
   "cct_hot_cold_diff", "scenario", "trading_context"}

\* the clauses adding a member may bring in: its own (for portfolio also the
\* drawdown clause of its member maxDrawdownPct), and for the members that
\* make the payload enhanced the risk-pattern clause that waits for it
MayAdd(f) ==
  {OwnClause(f)}
  \cup (IF f = "portfolio" THEN {"drawdown"} ELSE {})
  \cup (IF f \in {"portfolio", "scenario", "trading_context"}
        THEN {"risk_pattern"} ELSE {})

OthersUnchanged(before, after, names, own) ==
  (~before.raised /\ ~after.raised)
    => \A i \in 1..Len(names) :
         names[i] # own => after.array[i] = before.array[i]

Monotonic(before, after, names, f) ==
  /\ before.raised => after.raised
  /\ (~before.raised /\ ~after.raised)
       => \A i \in 1..Len(names) :
            /\ before.array[i] # Null => after.array[i] = before.array[i]
            /\ (before.array[i] = Null /\ after.array[i] # Null)
                 => names[i] \in MayAdd(f)

HotRequested ==
  Opt(req.body, "hot_condition") \in {Str("1"), Bool(TRUE)}

VolatilityLineOf(prompt, route) ==
  IF route = "/generic-nudge" THEN prompt[4] ELSE prompt[8]

\* C10: on the success path the hot flag (meta.is_hot and the volatility line
\* of the prompt) is true exactly when hot_condition is "1" or true
C10_HotCoercion ==
  /\ req.calls > 0
       => VolatilityLineOf(req.prompt, req.route)
            = "- Market Volatility: "
              \o (IF HotRequested THEN "High volatility conditions"
                  ELSE "Standard market conditions")
              \o (IF req.route # "/generic-nudge" /\ Truthy(TimerSec(req.body))
                  THEN " (" \o JSToString(TimerSec(req.body)) \o "s execution window)"
                  ELSE "")
  /\ \A i \in 1..Len(req.responses) :
       Opt(req.responses[i].body, "model") = Str("gpt-4o-mini")
         => Opt(req.responses[i].body.meta, "is_hot") = Bool(HotRequested)

C10_Witness ==
  /\ Responded /\ Opt(req.body, "hot_condition") = Bool(TRUE)
  /\ Opt(Response.body, "model") = Str("gpt-4o-mini")
  /\ Opt(Response.body.meta, "is_hot") = Bool(TRUE)

HotFlag(fl) == fl.hot_condition \in {Str("1"), Bool(TRUE)}

ClauseIncluded(composed, names, name) ==
  \E i \in 1..Len(names) : names[i] = name /\ composed.array[i] # Null

\* C11: in the fallback text of every route the volatility clause is included
\* exactly when hot_condition is the string "1" or the boolean true
C11_FallbackHotClause ==
  /\ ~advice.personalized.raised
       => (ClauseIncluded(advice.personalized, PersonalizedClauseNames, "hot")
             <=> HotFlag(fields))
  /\ ~advice.generic.raised
       => (ClauseIncluded(advice.generic, GenericClauseNames, "hot")
             <=> HotFlag(fields))

PersonalMembers == {"profile", "portfolio", "scenario", "trading_context"}

\* the body without its profile, portfolio, scenario and trading_context
WithoutPersonal(body) == [f \in DOMAIN body \ PersonalMembers |-> body[f]]

\* what a request settles with, given its route, body and call outcome
SettledWith(route, body, outcome, completion) ==
  CASE outcome = "resolved" -> AfterCallOf(route, body, completion)
    [] outcome = "rejected" -> CatchOf(route, body, "Connection error.")
    [] OTHER -> CatchOf(route, body, "TypeError")

\* C12: on /generic-nudge the composed prompt and the result (the fallback
\* text included) are those of the body without profile, portfolio, scenario
\* and trading_context, for the same outcome of the external call
C12_GenericIgnoresPersonal ==
  (req.route = "/generic-nudge")
    => LET plain == WithoutPersonal(req.body)
       IN /\ (req.calls > 0) = ~PromptThrows(req.route, plain)
          /\ req.calls > 0 => req.prompt = PromptOf(req.route, plain)
          /\ req.pc \in {"settled", "responded"}
               => req.result
                    = SettledWith(req.route, plain, req.outcome, req.completion)

C12_Witness ==
  /\ Responded /\ req.route = "/generic-nudge" /\ req.outcome = "rejected"
  /\ Opt(req.body, "portfolio") # Undef
  /\ Opt(Opt(req.body, "profile"), "cct_score") # Undef
  /\ IsFallbackBody(Response.body)

\* C13: a request issues at most one external call, and a request that
\* issued it is answered only after the call resolved or rejected
C13_AtMostOneCall ==
  /\ req.calls \in {0, 1}
  /\ req.outcome # "none" => req.calls = 1
  /\ req.pc = "awaiting" => (req.calls = 1 /\ req.outcome = "none")
  /\ (Len(req.responses) > 0 /\ req.calls = 1)
       => req.outcome \in {"resolved", "rejected"}

C13_Witness ==
  /\ Responded /\ req.calls = 1 /\ req.outcome = "rejected"
  /\ Len(req.responses) = 1 /\ Response.status = 200

(***************************************************************************)
(* The handlers under the scheduling of the event loop: a continuation     *)
(* that is ready (the handler's resumption after the generator settled,    *)
(* the handler's return) is eventually run.  Nothing obliges a client to   *)
(* send a request or the provider to settle a call: the generators pass no *)
(* timeout and no abort signal to openai.chat.completions.create.          *)
(***************************************************************************)
SpecFair == Spec /\ WF_vars(Respond) /\ WF_vars(Finish)

\* C14: every request suspended at its external call is eventually answered,
\* even when the provider never settles the call
C14_EventuallyAnswered == (req.pc = "awaiting") ~> Responded

(***************************************************************************)
(* The process started with or without a credential, serving one request   *)
(* at a time and GET /health at any moment                                 *)
(***************************************************************************)
\* a health handler that reports whether the last external call was answered
HealthFromCalls ==
  /\ health' = [status |-> 200,
                body |-> [status |-> Str("healthy"),
                          hasOpenAI |-> Bool(req.outcome = "resolved")]]
  /\ UNCHANGED <<req, cctScore, cctInfo, fields, added, prevAdvice, advice, env,
                 inflight>>

\* res.json of the health handler; the timestamp member is left out
Health ==
  /\ health' = [status |-> 200,
                body |-> [status |-> Str("healthy"),
                          hasOpenAI |-> Bool(Truthy(env.OPENAI_API_KEY))]]
  /\ UNCHANGED <<req, cctScore, cctInfo, fields, added, prevAdvice, advice, env,
                 inflight>>

Credentials == {Undef, Str(""), Str("sk-test")}

ProcessBodies ==
  {Undef,
   Build([NoFields EXCEPT !.trading_experience = Num(500)]),
   Build([NoFields EXCEPT !.hot_condition = Bool(TRUE), !.cct_score = Num(90)])}

ProcessCompletions == {EmptyObject, [choices |-> Choice(Str("ok"))]}

InitProcess ==
  /\ ReqIdle /\ InterpreterIdle /\ ComposerIdle /\ NoneInFlight
  /\ env \in {Environment(key) : key \in Credentials}
  /\ health = Undef

NextProcess ==
  \/ \E route \in Routes, b \in ProcessBodies : Receive(route, b)
  \/ \E completion \in ProcessCompletions : CallResolves(completion)
  \/ CallRejects
  \/ Respond
  \/ Finish
  \/ Health

SpecProcess == InitProcess /\ [][NextProcess]_vars

NoCredential == env.OPENAI_API_KEY \in {Undef, Str("")}

\* C15: a process started without a credential answers every request to
\* every nudge route with status 200 and the fallback body
C15_NoCredentialFallback ==
  (NoCredential /\ Responded)
    => /\ Response.status = 200
       /\ IsFallbackBody(Response.body)

HealthReport(configured) ==
  [status |-> 200,
   body |-> [status |-> Str("healthy"), hasOpenAI |-> Bool(configured)]]

\* C18: GET /health answers "healthy" with hasOpenAI false when no credential
\* is configured and true otherwise, and handling it leaves every nudge
\* request, its number of external calls included, as it was
C18_HealthReport ==
  [][health' # health
       => /\ health' = HealthReport(~NoCredential)
          /\ req' = req /\ inflight' = inflight /\ env' = env]_vars

C18_Witness ==
  /\ health = HealthReport(FALSE)
  /\ NoCredential
  /\ req.pc = "awaiting" /\ req.calls = 1

(***************************************************************************)
(* Several requests in flight: each handler invocation has its own locals  *)
(* (scenario, context, prompt, completion); the module-level bindings      *)
(* (app, openai, NUDGE_CATEGORIES) are never assigned after start          *)
(***************************************************************************)
ConcurrentBodies ==
  {Build([NoFields EXCEPT !.hot_condition = Bool(TRUE), !.cct_score = Num(90)]),
   Build([NoFields EXCEPT !.sym = Str("ABC")])}

ConcurrentCompletions == {[choices |-> Choice(Str("ok"))]}

\* the request as the handler leaves it at the await of the external call
Arrived(route, b) ==
  LET scenario == BodyOf(b)
  IN IF PromptThrows(route, scenario)
     THEN [Idle EXCEPT !.pc = "settled", !.route = route, !.body = scenario,
                       !.result = CatchOf(route, scenario, "TypeError")]
     ELSE [Idle EXCEPT !.pc = "awaiting", !.route = route, !.body = scenario,
                       !.prompt = PromptOf(route, scenario), !.calls = 1]

Answered(r) ==
  LET h == HandlerTry(r.route, r.result)
  IN [r EXCEPT !.pc = "responded", !.responses = r.responses \o h.responses,
               !.escaped = h.escaped]

SlotReceive(s, route, b) ==
  /\ inflight[s].pc = "idle"
  /\ inflight' = [inflight EXCEPT ![s] = Arrived(route, b)]
  /\ UNCHANGED <<req, cctScore, cctInfo, fields, added, prevAdvice, advice, env,
                 health>>

\* the body of the request that arrived last among those suspended
LatestBody == inflight[CHOOSE s \in Slots :
                         /\ inflight[s].pc = "awaiting"
                         /\ \A t \in Slots : inflight[t].pc = "awaiting" => t <= s].body

\* a generator whose scenario is one binding shared by all invocations
SlotResolvesShared(s, completion) ==
  /\ inflight[s].pc = "awaiting"
  /\ Truthy(env.OPENAI_API_KEY)
  /\ inflight' =
       [inflight EXCEPT ![s] =
          [inflight[s] EXCEPT !.pc = "settled", !.outcome = "resolved",
                              !.completion = completion,
                              !.result = AfterCallOf(inflight[s].route, LatestBody,
                                           completion)]]
  /\ UNCHANGED <<req, cctScore, cctInfo, fields, added, prevAdvice, advice, env,
                 health>>

SlotResolves(s, completion) ==
  /\ inflight[s].pc = "awaiting"
  /\ Truthy(env.OPENAI_API_KEY)
  /\ inflight' =
       [inflight EXCEPT ![s] =
          [inflight[s] EXCEPT !.pc = "settled", !.outcome = "resolved",
                              !.completion = completion,
                              !.result = AfterCallOf(inflight[s].route,
                                           inflight[s].body, completion)]]
  /\ UNCHANGED <<req, cctScore, cctInfo, fields, added, prevAdvice, advice, env,
                 health>>

SlotRejects(s) ==
  /\ inflight[s].pc = "awaiting"
  /\ inflight' =
       [inflight EXCEPT ![s] =
          [inflight[s] EXCEPT !.pc = "settled", !.outcome = "rejected",
                              !.result = CatchOf(inflight[s].route, inflight[s].body,
                                       "Connection error.")]]
  /\ UNCHANGED <<req, cctScore, cctInfo, fields, added, prevAdvice, advice, env,
                 health>>

SlotRespond(s) ==
  /\ inflight[s].pc = "settled"
  /\ inflight' = [inflight EXCEPT ![s] = Answered(@)]
  /\ UNCHANGED <<req, cctScore, cctInfo, fields, added, prevAdvice, advice, env,
                 health>>

SlotFinish(s) ==
  /\ inflight[s].pc = "responded"
  /\ inflight' = [inflight EXCEPT ![s] = Idle]
  /\ UNCHANGED <<req, cctScore, cctInfo, fields, added, prevAdvice, advice, env,
                 health>>

InitConcurrent ==
  /\ ReqIdle /\ InterpreterIdle /\ ComposerIdle
  /\ Configured /\ NoneInFlight

NextConcurrent ==
  \E s \in Slots :
    \/ \E route \in Routes, b \in ConcurrentBodies : SlotReceive(s, route, b)
    \/ \E completion \in ConcurrentCompletions : SlotResolves(s, completion)
    \/ SlotRejects(s)
    \/ SlotRespond(s)
    \/ SlotFinish(s)

SpecConcurrent == InitConcurrent /\ [][NextConcurrent]_vars

\* what a request shows at each point is what its own route, body and call
\* outcome give
OwnOnly(r) ==
  /\ r.pc = "awaiting" => r.prompt = PromptOf(r.route, r.body)
  /\ r.pc \in {"settled", "responded"}
       => r.result = SettledWith(r.route, r.body, r.outcome, r.completion)
  /\ r.pc = "responded"
       => r.responses = HandlerTry(r.route, r.result).responses

\* C16: under any interleaving of the requests in flight each response is
\* determined by the request's own body and own call outcome, and a step of
\* one request changes no other request
C16_RequestsIndependent ==
  /\ [](\A s \in Slots : OwnOnly(inflight[s]))
  /\ [][\A s, t \in Slots :
          (inflight'[s] # inflight[s] /\ t # s) => inflight'[t] = inflight[t]]_vars

C16_Witness ==
  \E s, t \in Slots :
    /\ inflight[s].pc = "awaiting"
    /\ inflight[t].pc = "responded" /\ inflight[t].outcome = "resolved"
    /\ inflight[t].body # inflight[s].body
    /\ inflight[t].route # inflight[s].route
    /\ inflight[t].responses[1].status = 200

Twin(route) == IF route = "/nudge" THEN "/enhanced-nudge" ELSE "/nudge"

\* C17: for the same body and the same outcome of the external call /nudge
\* and /enhanced-nudge answer with the same status and, when the status is
\* 200, with the same body
C17_LegacyLikeEnhanced ==
  (Responded /\ req.route \in {"/nudge", "/enhanced-nudge"})
    => LET other == Twin(req.route)
           twin == HandlerTry(other, SettledWith(other, req.body, req.outcome,
                                                 req.completion)).responses[1]
       IN /\ (req.calls = 0) = PromptThrows(other, req.body)
          /\ Response.status = twin.status
          /\ Response.status = 200 => Response.body = twin.body

C17_Witness ==
  /\ Responded /\ req.route = "/nudge" /\ req.outcome = "rejected"
  /\ Opt(req.body, "portfolio") # Undef
  /\ Response.status = 200 /\ IsFallbackBody(Response.body)

\* C19: in the fallback text of every route the fair-value clause is included
\* exactly when both fair_value and last are present, the number 0 included
C19_FairValueWhenPresent ==
  LET both == fields.fair_value # Undef /\ fields.last # Undef
  IN /\ ~advice.personalized.raised
          => (ClauseIncluded(advice.personalized, PersonalizedClauseNames,
                             "fair_value") <=> both)
     /\ ~advice.generic.raised
          => (ClauseIncluded(advice.generic, GenericClauseNames, "fair_value")
                <=> both)

\* C20: the personalized fallback includes the drawdown clause exactly when
\* the payload is enhanced and portfolio.currentDrawdownPct is greater than 2
C20_DrawdownWhenCurrentAbove2 ==
  LET enhanced == \/ fields.portfolio # Undef
                  \/ fields.scenario # Undef
                  \/ fields.trading_context # Undef
      current == IF fields.portfolio = Undef THEN Undef
                 ELSE fields.portfolio.currentDrawdownPct
  IN ~advice.personalized.raised
       => (ClauseIncluded(advice.personalized, PersonalizedClauseNames,
                          "drawdown")
             <=> (enhanced /\ IsNumber(current) /\ current.n > 200))

\* sub occurs in text
Contains(text, sub) ==
  \E i \in 1..(Len(text) - Len(sub) + 1) :
    SubSeq(text, i, i + Len(sub) - 1) = sub

\* the text names the level and the advice interpretCCTScore gives for the score
HasRiskClause(text, score) ==
  LET info == interpretCCTScore(score)
  IN /\ ~info.raised
     /\ Contains(text, "(" \o info.level \o " risk tolerance): "
                        \o info.advice \o ".")

FallbackResponse(i) ==
  /\ req.responses[i].status = 200
  /\ IsFallbackBody(req.responses[i].body)

ScoreOf(body) == Opt(Opt(body, "profile"), "cct_score")

\* C21 as stated: every fallback text of every route contains the risk clause
\* of the level and advice interpretCCTScore returns for profile.cct_score
C21_Original ==
  \A i \in 1..Len(req.responses) :
    FallbackResponse(i)
      => HasRiskClause(TextOf(req.responses[i].body).s, ScoreOf(req.body))

\* C21 amended: every fallback text of /enhanced-nudge and /nudge contains
\* that risk clause, and no fallback text of /generic-nudge has a risk clause
C21_RiskClausePersonalized ==
  \A i \in 1..Len(req.responses) :
    FallbackResponse(i)
      => IF req.route = "/generic-nudge"
         THEN ~Contains(TextOf(req.responses[i].body).s, "risk tolerance")
         ELSE HasRiskClause(TextOf(req.responses[i].body).s, ScoreOf(req.body))

C21_Witness ==
  /\ Responded /\ req.route = "/enhanced-nudge" /\ FallbackResponse(1)
  /\ ScoreOf(req.body) = Num(90)
  /\ Contains(TextOf(Response.body).s, "(high risk tolerance)")

(***************************************************************************)
(* The handlers on payloads with and without a profile, a portfolio, a     *)
(* scenario and a trading context, and with a bid that is absent or cannot *)
(* be converted to a string                                                *)
(***************************************************************************)
DetectFields ==
  { [NoFields EXCEPT !.cct_score = cs, !.cct_hot_cold_diff = d,
                     !.portfolio = pf[1], !.maxDrawdownPct = pf[2],
                     !.scenario = sc, !.trading_context = tc, !.bid = bd] :
      cs \in {Undef, Num(90)},
      d \in {Undef, Num(10)},
      pf \in {<<Undef, Undef>>, <<Null, Undef>>, <<EmptyObject, Undef>>,
              <<SamplePortfolio, Undef>>, <<SamplePortfolio, Num(300)>>},
      sc \in {Undef, SampleScenario},
      tc \in {Undef, SampleTradingContext},
      bd \in {Undef, NoPrimObj} }

DetectBodies == {Build(fl) : fl \in DetectFields}

NextDetect ==
  \/ \E route \in Routes, b \in DetectBodies : Receive(route, b)
  \/ \E completion \in Completions : CallResolves(completion)
  \/ CallRejects
  \/ Respond
  \/ Finish

SpecDetect == Init /\ [][NextDetect]_vars

\* a member is present when the body has it with a value other than null
PresentIn(body, name) == Opt(body, name) \notin {Undef, Null}

AnyEnhancement(body) ==
  \E name \in {"portfolio", "scenario", "trading_context"} : PresentIn(body, name)

NoPortfolioClause(text) ==
  /\ ~Contains(text, "Portfolio: $")
  /\ ~Contains(text, "below peak")
  /\ ~Contains(text, "Your risk pattern shows")

\* C22: on /enhanced-nudge and /nudge meta.enhanced_payload of a fallback is
\* true exactly when portfolio, scenario or trading_context is present; with
\* none of them the text has no portfolio-derived clause, and has the "high"
\* risk clause when profile.cct_score is 0.9
C22_EnhancedDetection ==
  \A i \in 1..Len(req.responses) :
    (FallbackResponse(i) /\ req.route \in {"/enhanced-nudge", "/nudge"})
      => LET body == req.responses[i].body
             text == TextOf(body).s
         IN /\ Opt(body.meta, "enhanced_payload") = Bool(AnyEnhancement(req.body))
            /\ ~AnyEnhancement(req.body) => NoPortfolioClause(text)
            /\ (~AnyEnhancement(req.body) /\ ScoreOf(req.body) = Num(90))
                 => Contains(text, "Risk assessment (high risk tolerance): "
                                    \o "conservative approach recommended.")

C22_Witness ==
  /\ Responded /\ req.route = "/enhanced-nudge" /\ req.outcome = "rejected"
  /\ FallbackResponse(1)
  /\ req.body = [profile |-> [cct_score |-> Num(90), cct_hot_cold_diff |-> Num(10)]]
  /\ Opt(Response.body.meta, "enhanced_payload") = Bool(FALSE)
  /\ TextOf(Response.body)
       = Str("You are placing 0 Buy on TICKER. Risk assessment (high risk "
             \o "tolerance): conservative approach recommended.")

StartsWith(text, prefix) ==
  Len(text) >= Len(prefix) /\ SubSeq(text, 1, Len(prefix)) = prefix

\* C23: POST /nudge with a missing body or {} is answered with status 200
\* and a non-empty suggestion_text, its prompt and its fallback text name the
\* trade 0 Buy on TICKER; and a fallback text of /nudge has the default of
\* each trade field the body lacks
C23_EmptyBodyDefaults ==
  (Responded /\ req.route = "/nudge")
    => LET text == TextOf(Response.body).s
       IN /\ req.body = EmptyObject
               => /\ Response.status = 200
                  /\ NonEmptyString(TextOf(Response.body))
                  /\ req.calls = 1
                  /\ req.prompt[1] = "- Trade: Buy 0 shares of TICKER (Market order)"
                  /\ FallbackResponse(1)
                       => StartsWith(text, "You are placing 0 Buy on TICKER.")
          /\ FallbackResponse(1)
               => /\ StartsWith(text, "You are placing ")
                  /\ Contains(text, " Buy on ")
                  /\ Opt(Opt(req.body, "exec"), "qty") = Undef
                       => StartsWith(text, "You are placing 0 Buy on ")
                  /\ Opt(req.body, "sym") = Undef
                       => Contains(text, " Buy on TICKER.")

C23_Witness ==
  /\ Responded /\ req.route = "/nudge" /\ req.body = EmptyObject
  /\ req.outcome = "rejected" /\ Response.status = 200
  /\ TextOf(Response.body)
       = Str("You are placing 0 Buy on TICKER. Risk assessment (unknown risk "
             \o "tolerance): standard risk assessment.")

\* the external call failed: it rejected, or it resolved with a response
\* that has no choices
CallFailed ==
  \/ req.outcome = "rejected"
  \/ req.outcome = "resolved" /\ Opt(req.completion, "choices") \in {Undef, Null}

\* prompt composition threw before any external call was made
ComposeFailed == req.calls = 0 /\ req.pc # "idle"

ReportedTokens ==
  LET total == Opt(Opt(req.completion, "usage"), "total_tokens")
  IN IF TypeOf(total) = "number" /\ total.n # 0 THEN total ELSE Num(0)

FallbackIffFailed(body, failed) ==
  LET fallback == Opt(body, "model") = Str("fallback-rule-based")
      flagged == /\ Opt(Opt(body, "meta"), "fallback") = Bool(TRUE)
                 /\ NonEmptyString(Opt(Opt(body, "meta"), "error"))
  IN /\ fallback <=> flagged
     /\ flagged <=> failed
     /\ ~failed => /\ Opt(body, "model") = Str("gpt-4o-mini")
                   /\ Opt(Opt(body, "meta"), "tokens_used") = ReportedTokens
                   /\ Opt(Opt(body, "meta"), "fallback") = Undef

\* C24 as stated: a 200 response is a fallback (model, meta.fallback and
\* meta.error) exactly when the request's external call failed, and is
\* otherwise a gpt-4o-mini result with tokens_used and no fallback flag
C24_Original ==
  \A i \in 1..Len(req.responses) :
    req.responses[i].status = 200
      => FallbackIffFailed(req.responses[i].body, CallFailed)

\* C24 amended: a 200 response is a fallback exactly when the external call
\* failed or prompt composition threw before the call was made, and is
\* otherwise a gpt-4o-mini result with tokens_used and no fallback flag
C24_FallbackIffTryFailed ==
  \A i \in 1..Len(req.responses) :
    req.responses[i].status = 200
      => FallbackIffFailed(req.responses[i].body, CallFailed \/ ComposeFailed)

C24_Witness ==
  /\ Responded /\ ComposeFailed /\ req.outcome = "none"
  /\ Response.status = 200 /\ IsFallbackBody(Response.body)

====
